---- MODULE Spec2Model ----
(***************************************************************************)
(* Model of src/app.py: a Streamlit page that keeps one pandas DataFrame   *)
(* per uploaded file in st.session_state.datasets and, per file, an edit   *)
(* history in st.session_state.user_settings (dropped_columns,             *)
(* dropped_rows and the two snapshot frames).  Every user interaction      *)
(* re-runs main(); one action of the model is one such run for one file,   *)
(* with the widget values of that run as its inputs.  combined is what     *)
(* the run left in data after "Choose a method to combine files", the      *)
(* frame shown as "Combined Data Preview" when several files are loaded;   *)
(* it is a local of the run, followed only by the sessions of SpecCombine. *)
(***************************************************************************)
EXTENDS Integers, Sequences, FiniteSets, TLC

VARIABLES datasets, user_settings, last, runs, combined

vars == <<datasets, user_settings, last, runs, combined>>

(***************************************************************************)
(* Bounds of the model.                                                    *)
(***************************************************************************)
\* A run whose result table would have more rows / columns is not taken.
MaxRows == 3
MaxCols == 3
\* The runs of main() in one session.
MaxRuns == 4

(***************************************************************************)
(* Cell values.  A cell is a tagged value: an integer, a float (only       *)
(* integral floats occur), a string holding an integer literal ("1"), a    *)
(* string holding a float literal ("1.0"), any other text, or the missing  *)
(* value NaN.                                                              *)
(***************************************************************************)
NaN == [t |-> "nan", n |-> 0]

IntV(k) == [t |-> "int", n |-> k]

FloatV(k) == [t |-> "float", n |-> k]

StrIntV(k) == [t |-> "str_int", n |-> k]

StrFloatV(k) == [t |-> "str_float", n |-> k]

TextV == [t |-> "str", n |-> 0]

IsNum(v) == v.t \in {"int", "float"}

IsStr(v) == v.t \in {"str_int", "str_float", "str"}

\* Python / pandas equality of two labels or cells: 1 == 1.0, NaN matches NaN
\* in isin, drop_duplicates and label look-ups.
ValEq(a, b) == a = b \/ (IsNum(a) /\ IsNum(b) /\ a.n = b.n)

\* Rank of a string in lexicographic order: "0" < "1" < "1.0" < "2" < ... < text.
StrRank(v) == IF v.t = "str" THEN 1000 ELSE 2 * v.n + (IF v.t = "str_float" THEN 1 ELSE 0)

\* a < b as sort_index / sort_values compare them (NaN is placed last).
ValLess(a, b) ==
    IF a.t = "nan" THEN FALSE
    ELSE IF b.t = "nan" THEN TRUE
    ELSE IF IsNum(a) /\ IsNum(b) THEN a.n < b.n
    ELSE StrRank(a) < StrRank(b)

\* Python raises TypeError when it has to order a string against a number.
Comparable(s) ==
    \A i \in 1..Len(s) : \A j \in 1..Len(s) :
        (s[i].t = "nan") \/ (s[j].t = "nan") \/ (IsNum(s[i]) <=> IsNum(s[j]))

(***************************************************************************)
(* Sequences.                                                              *)
(***************************************************************************)
Range(s) == {s[i] : i \in 1..Len(s)}

\* The positions i of 1..n with P(i), ascending.
FilterIdx(n, P(_)) ==
    LET f[k \in 0..n] == IF k = 0 THEN <<>>
                         ELSE IF P(k) THEN Append(f[k - 1], k) ELSE f[k - 1]
    IN  f[n]

HasDup(s) == \E i \in 1..Len(s) : \E j \in 1..Len(s) : i < j /\ ValEq(s[i], s[j])

HasDupName(s) == \E i \in 1..Len(s) : \E j \in 1..Len(s) : i < j /\ s[i] = s[j]

InKeys(k, s) == \E i \in 1..Len(s) : ValEq(s[i], k)

SameKeys(s, u) == Len(s) = Len(u) /\ \A i \in 1..Len(s) : ValEq(s[i], u[i])

\* s without repeated entries, first occurrences kept in order.
UniqueNames(s) ==
    LET ps == FilterIdx(Len(s), LAMBDA i : \A j \in 1..(i - 1) : s[j] # s[i])
    IN  [j \in 1..Len(ps) |-> s[ps[j]]]

UniqueKeys(s) ==
    LET ps == FilterIdx(Len(s), LAMBDA i : \A j \in 1..(i - 1) : ~ValEq(s[j], s[i]))
    IN  [j \in 1..Len(ps) |-> s[ps[j]]]

\* [x for x in s if x not in sel], for column labels and for row labels.
WithoutNames(s, sel) ==
    LET ps == FilterIdx(Len(s), LAMBDA k : s[k] \notin Range(sel))
    IN  [k \in 1..Len(ps) |-> s[ps[k]]]

WithoutKeys(s, sel) ==
    LET ps == FilterIdx(Len(s), LAMBDA k : ~InKeys(s[k], sel))
    IN  [k \in 1..Len(ps) |-> s[ps[k]]]

\* Sequences over the entries of s, in the order of s, one per subset.
SubSeqs(s) ==
    {[j \in 1..Len(ps) |-> s[ps[j]]] :
        ps \in {FilterIdx(Len(s), LAMBDA i : i \in S) : S \in SUBSET (1..Len(s))}}

(***************************************************************************)
(* Tables (pandas DataFrames): column labels, row labels (the index) and   *)
(* the cells row by row.  Labels may repeat, as pandas allows.             *)
(***************************************************************************)
EmptyDF == [cols |-> <<>>, idx |-> <<>>, rows |-> <<>>]

NRows(t) == Len(t.idx)

NCols(t) == Len(t.cols)

\* DataFrame.empty: any axis of length 0.
IsEmpty(t) == NRows(t) = 0 \/ NCols(t) = 0

TakeRows(t, ps) ==
    [cols |-> t.cols,
     idx  |-> [j \in 1..Len(ps) |-> t.idx[ps[j]]],
     rows |-> [j \in 1..Len(ps) |-> t.rows[ps[j]]]]

TakeCols(t, cs) ==
    [cols |-> [j \in 1..Len(cs) |-> t.cols[cs[j]]],
     idx  |-> t.idx,
     rows |-> [i \in 1..NRows(t) |-> [j \in 1..Len(cs) |-> t.rows[i][cs[j]]]]]

Column(t, j) == [i \in 1..NRows(t) |-> t.rows[i][j]]

\* The dtype pandas gives a column after a concat: a numeric column that holds
\* a float or a missing value is float64, so its integers become floats.
Upcast(col) ==
    IF (\A i \in 1..Len(col) : ~IsStr(col[i])) /\ (\E i \in 1..Len(col) : col[i].t # "int")
    THEN [i \in 1..Len(col) |-> IF col[i].t = "int" THEN FloatV(col[i].n) ELSE col[i]]
    ELSE col

UpcastTable(t) ==
    LET cs == [j \in 1..NCols(t) |-> Upcast(Column(t, j))]
    IN  [cols |-> t.cols,
         idx  |-> Upcast(t.idx),
         rows |-> [i \in 1..NRows(t) |-> [j \in 1..NCols(t) |-> cs[j][i]]]]

(***************************************************************************)
(* The pandas operations main() calls, as functions of tables.             *)
(***************************************************************************)
\* Positions of the columns whose label is one of names, grouped by name in
\* the order of names: DataFrame.__getitem__ with a list of labels.
ColPositions(t, names) ==
    LET f[k \in 0..Len(names)] ==
            IF k = 0 THEN <<>>
            ELSE f[k - 1] \o FilterIdx(NCols(t), LAMBDA j : t.cols[j] = names[k])
    IN  f[Len(names)]

\* data[names]
SelectCols(t, names) == TakeCols(t, ColPositions(t, names))

\* data.drop(columns=names)
DropCols(t, names) ==
    TakeCols(t, FilterIdx(NCols(t), LAMBDA j : t.cols[j] \notin Range(names)))

\* Positions of the rows whose label is one of keys, grouped by key in the
\* order of keys: DataFrame.loc with a list of labels.
RowPositions(t, keys) ==
    LET f[k \in 0..Len(keys)] ==
            IF k = 0 THEN <<>>
            ELSE f[k - 1] \o FilterIdx(NRows(t), LAMBDA i : ValEq(t.idx[i], keys[k]))
    IN  f[Len(keys)]

\* data.loc[keys]
SelectRows(t, keys) == TakeRows(t, RowPositions(t, keys))

\* data.drop(index=keys)
DropRowLabels(t, keys) ==
    TakeRows(t, FilterIdx(NRows(t), LAMBDA i : ~InKeys(t.idx[i], keys)))

\* df.loc[df.index.isin(keys)]
RowsIsin(t, keys) ==
    TakeRows(t, FilterIdx(NRows(t), LAMBDA i : InKeys(t.idx[i], keys)))

RowEq(r, u) == \A j \in 1..Len(r) : ValEq(r[j], u[j])

\* data.drop_duplicates(keep="last"): the last of equal rows is kept.
DropDuplicatesKeepLast(t) ==
    IF IsEmpty(t) THEN t
    ELSE TakeRows(t, FilterIdx(NRows(t),
            LAMBDA i : \A k \in (i + 1)..NRows(t) : ~RowEq(t.rows[k], t.rows[i])))

\* data.drop_duplicates(): an empty frame is returned as it is; otherwise a
\* row equal in every column to an earlier row is removed.
DropDuplicates(t) ==
    IF IsEmpty(t) THEN t
    ELSE TakeRows(t, FilterIdx(NRows(t),
            LAMBDA i : \A k \in 1..(i - 1) : ~RowEq(t.rows[k], t.rows[i])))

\* data.dropna(): rows with a missing cell are removed.
DropNa(t) ==
    TakeRows(t, FilterIdx(NRows(t),
        LAMBDA i : \A j \in 1..NCols(t) : t.rows[i][j].t # "nan"))

\* data.fillna(fill_value): fill_value is the text of a text input.
FillNa(t, v) ==
    [t EXCEPT !.rows = [i \in 1..NRows(t) |->
        [j \in 1..NCols(t) |-> IF t.rows[i][j].t = "nan" THEN v ELSE t.rows[i][j]]]]

\* data.rename(columns={old: new})
RenameCols(t, old, new) ==
    [t EXCEPT !.cols = [j \in 1..NCols(t) |-> IF t.cols[j] = old THEN new ELSE t.cols[j]]]

DTypes == {"int", "float", "string", "datetime"}

\* Whether Series.astype(dtype) accepts the cell.  "datetime" is no dtype
\* name pandas knows: astype raises TypeError whatever the cells are.
CanCast(v, dtype) ==
    CASE dtype = "int"      -> v.t \in {"int", "float", "str_int"}
      [] dtype = "float"    -> v.t \in {"int", "float", "nan", "str_int", "str_float"}
      [] dtype = "string"   -> TRUE
      [] OTHER              -> FALSE

Cast(v, dtype) ==
    CASE dtype = "int"    -> IntV(v.n)
      [] dtype = "float"  -> IF v.t = "nan" THEN NaN ELSE FloatV(v.n)
      [] dtype = "string" -> IF v.t = "int" THEN StrIntV(v.n)
                             ELSE IF v.t = "float" THEN StrFloatV(v.n)
                             ELSE v
      [] OTHER            -> v

\* data[col].astype(dtype) raises
AsTypeFails(t, col, dtype) ==
    \/ col \notin Range(t.cols)
    \/ \E i \in 1..NRows(t) : \E j \in 1..NCols(t) :
          t.cols[j] = col /\ ~CanCast(t.rows[i][j], dtype)

\* data[col] = data[col].astype(dtype)
AsType(t, col, dtype) ==
    [t EXCEPT !.rows = [i \in 1..NRows(t) |->
        [j \in 1..NCols(t) |->
            IF t.cols[j] = col THEN Cast(t.rows[i][j], dtype) ELSE t.rows[i][j]]]]

\* data.set_index(col) raises: no such column, or the label is not unique.
SetIndexFails(t, col) ==
    Cardinality({j \in 1..NCols(t) : t.cols[j] = col}) # 1

\* data.set_index(col): the column becomes the row index and leaves the columns.
SetIndex(t, col) ==
    LET j == CHOOSE k \in 1..NCols(t) : t.cols[k] = col
        keep == FilterIdx(NCols(t), LAMBDA k : k # j)
    IN  [TakeCols(t, keep) EXCEPT !.idx = Column(t, j)]

\* a before b in a descending sort (NaN is still placed last).
ValGreater(a, b) ==
    IF a.t = "nan" THEN FALSE
    ELSE IF b.t = "nan" THEN TRUE
    ELSE ValLess(b, a)

\* The order a stable sort of keys gives (positions of keys).
StableOrderBy(keys, Less(_, _)) ==
    LET n == Len(keys)
        Before(q, p) == Less(keys[q], keys[p])
                        \/ (~Less(keys[p], keys[q]) /\ q < p)
    IN  [r \in 1..n |-> CHOOSE p \in 1..n :
                            Cardinality({q \in 1..n : Before(q, p)}) = r - 1]

\* Every order of the positions of keys in which the keys are sorted.  The
\* sort kind pandas uses by default (quicksort) promises no order among
\* equal keys.
OrdersBy(keys, Less(_, _)) ==
    IF ~HasDup(keys) THEN {StableOrderBy(keys, Less)}
    ELSE LET First(S) == {x \in S : \A y \in S : ~Less(keys[y], keys[x])}
             Orders[S \in SUBSET (1..Len(keys))] ==
                 IF S = {} THEN {<<>>}
                 ELSE UNION {{<<x>> \o p : p \in Orders[S \ {x}]} : x \in First(S)}
         IN  Orders[1..Len(keys)]

\* data.sort_index()
SortIndexFails(t) == ~Comparable(t.idx)

SortIndexOutcomes(t) == {TakeRows(t, p) : p \in OrdersBy(t.idx, ValLess)}

\* data.sort_values(by=col, ascending=asc) raises: no such column, a repeated
\* label, or cells that cannot be ordered.
SortValuesFails(t, col) ==
    \/ Cardinality({j \in 1..NCols(t) : t.cols[j] = col}) # 1
    \/ ~Comparable(Column(t, CHOOSE j \in 1..NCols(t) : t.cols[j] = col))

SortValuesOutcomes(t, col, asc) ==
    LET keys == Column(t, CHOOSE j \in 1..NCols(t) : t.cols[j] = col)
    IN  {TakeRows(t, p) :
            p \in IF asc THEN OrdersBy(keys, ValLess) ELSE OrdersBy(keys, ValGreater)}

\* pd.concat([a, b], axis=1) raises: the row indexes differ and one of them
\* has a repeated label (pandas cannot reindex it to the union).
ConcatColsFails(a, b) ==
    ~SameKeys(a.idx, b.idx) /\ (HasDup(a.idx) \/ HasDup(b.idx))

CellAt(t, key, j) ==
    IF InKeys(key, t.idx)
    THEN t.rows[CHOOSE i \in 1..NRows(t) : ValEq(t.idx[i], key)][j]
    ELSE NaN

\* pd.concat([a, b], axis=1): the columns of a, then those of b, over the
\* union of the two row indexes (outer join, labels of a first); a row one
\* frame lacks gets missing values in that frame's columns.
ConcatCols(a, b) ==
    IF SameKeys(a.idx, b.idx)
    THEN [cols |-> a.cols \o b.cols,
          idx  |-> a.idx,
          rows |-> [i \in 1..NRows(a) |-> a.rows[i] \o b.rows[i]]]
    ELSE LET u == UniqueKeys(a.idx \o b.idx)
         IN  UpcastTable(
               [cols |-> a.cols \o b.cols,
                idx  |-> u,
                rows |-> [i \in 1..Len(u) |->
                            [j \in 1..NCols(a) |-> CellAt(a, u[i], j)]
                            \o [j \in 1..NCols(b) |-> CellAt(b, u[i], j)]]])

\* pd.concat([a, b]) raises: the column labels differ and one frame has a
\* repeated column label.
ConcatRowsFails(a, b) ==
    a.cols # b.cols /\ (HasDupName(a.cols) \/ HasDupName(b.cols))

RowOver(t, i, cols) ==
    [j \in 1..Len(cols) |->
        IF \E k \in 1..NCols(t) : t.cols[k] = cols[j]
        THEN t.rows[i][CHOOSE k \in 1..NCols(t) : t.cols[k] = cols[j]]
        ELSE NaN]

\* pd.concat([a, b]): the rows of a, then those of b, over the union of the
\* column labels (labels of a first); a column one frame lacks is missing in
\* that frame's rows.
ConcatRows(a, b) ==
    IF a.cols = b.cols
    THEN UpcastTable([cols |-> a.cols, idx |-> a.idx \o b.idx, rows |-> a.rows \o b.rows])
    ELSE LET u == UniqueNames(a.cols \o b.cols)
         IN  UpcastTable(
               [cols |-> u,
                idx  |-> a.idx \o b.idx,
                rows |-> [i \in 1..NRows(a) |-> RowOver(a, i, u)]
                         \o [i \in 1..NRows(b) |-> RowOver(b, i, u)]])

\* The row index 0..n-1 (RangeIndex).
RangeIndex(n) == [i \in 1..n |-> IntV(i - 1)]

\* The cells of every frame of ts, frame after frame, over the labels cols.
RowsOver(ts, cols) ==
    LET f[k \in 0..Len(ts)] ==
            IF k = 0 THEN <<>>
            ELSE f[k - 1] \o [i \in 1..NRows(ts[k]) |-> RowOver(ts[k], i, cols)]
    IN  f[Len(ts)]

\* The column labels of the frames of ts, in order of first appearance.
AllCols(ts) ==
    LET f[k \in 0..Len(ts)] == IF k = 0 THEN <<>> ELSE f[k - 1] \o ts[k].cols
    IN  UniqueNames(f[Len(ts)])

\* The rows and row labels of the frames of ts, frame after frame.
AllRows(ts) ==
    LET f[k \in 0..Len(ts)] == IF k = 0 THEN <<>> ELSE f[k - 1] \o ts[k].rows
    IN  f[Len(ts)]

AllKeys(ts) ==
    LET f[k \in 0..Len(ts)] == IF k = 0 THEN <<>> ELSE f[k - 1] \o ts[k].idx
    IN  f[Len(ts)]

\* pd.concat(datasets, ...) raises: the column labels of the frames differ
\* and one frame has a repeated column label.
ConcatenateFails(ts) ==
    \E i \in 1..Len(ts) : \E j \in 1..Len(ts) :
        ts[i].cols # ts[j].cols /\ HasDupName(ts[i].cols)

\* pd.concat(datasets) without ignore_index: every row keeps its label.
ConcatenateKeepIndex(ts) ==
    IF \A k \in 1..Len(ts) : ts[k].cols = ts[1].cols
    THEN UpcastTable([cols |-> ts[1].cols, idx |-> AllKeys(ts), rows |-> AllRows(ts)])
    ELSE UpcastTable([cols |-> AllCols(ts), idx |-> AllKeys(ts),
                      rows |-> RowsOver(ts, AllCols(ts))])

\* pd.concat(datasets, ignore_index=True): the rows of the frames, frame
\* after frame, over the union of their column labels in order of first
\* appearance, a cell missing where the frame lacks the column; the row
\* index is renumbered 0..n-1.
Concatenate(ts) ==
    IF \A k \in 1..Len(ts) : ts[k].cols = ts[1].cols
    THEN UpcastTable([cols |-> ts[1].cols, idx |-> RangeIndex(Len(AllRows(ts))),
                      rows |-> AllRows(ts)])
    ELSE UpcastTable([cols |-> AllCols(ts), idx |-> RangeIndex(Len(AllRows(ts))),
                      rows |-> RowsOver(ts, AllCols(ts))])

\* The position of the column labelled name.
ColOf(t, name) == CHOOSE j \in 1..NCols(t) : t.cols[j] = name

HasCol(t, name) == \E j \in 1..NCols(t) : t.cols[j] = name

\* A column of a numeric dtype (int64, float64) / an object column of text.
NumericCol(col) == \A i \in 1..Len(col) : IsNum(col[i]) \/ col[i].t = "nan"

TextCol(col) == \E i \in 1..Len(col) : IsStr(col[i])

\* a.merge(b, on=key) raises: key is not a column label of both frames
\* (KeyError), labels it more than once, or, both frames having rows, is a
\* numeric column in one and a text column in the other (ValueError: "You
\* are trying to merge on int64 and object columns").
MergeFails(a, b, key) ==
    \/ ~HasCol(a, key) \/ ~HasCol(b, key)
    \/ Len(ColPositions(a, <<key>>)) > 1 \/ Len(ColPositions(b, <<key>>)) > 1
    \/ /\ NRows(a) > 0 /\ NRows(b) > 0
       /\ LET ka == Column(a, ColOf(a, key))
              kb == Column(b, ColOf(b, key))
          IN  \/ NumericCol(ka) /\ TextCol(kb)
              \/ TextCol(ka) /\ NumericCol(kb)

\* The column labels of a.merge(b, on=key): those of a, then those of b
\* without key; a label other than key that both frames have gets the
\* suffix _x on the left and _y on the right.
MergeCols(a, b, key) ==
    [j \in 1..NCols(a) |->
        IF a.cols[j] # key /\ HasCol(b, a.cols[j]) THEN a.cols[j] \o "_x" ELSE a.cols[j]]
    \o LET js == FilterIdx(NCols(b), LAMBDA j : b.cols[j] # key)
       IN  [k \in 1..Len(js) |->
              IF HasCol(a, b.cols[js[k]]) THEN b.cols[js[k]] \o "_y" ELSE b.cols[js[k]]]

\* The pairs (row of a, row of b) a join on key matches, in the order of the
\* rows of a and, for one row of a, of the rows of b.  NaN matches NaN.
MatchPairs(a, b, key) ==
    LET ja == ColOf(a, key)
        jb == ColOf(b, key)
        f[i \in 0..NRows(a)] ==
            IF i = 0 THEN <<>>
            ELSE LET ms == FilterIdx(NRows(b),
                              LAMBDA m : ValEq(a.rows[i][ja], b.rows[m][jb]))
                 IN  f[i - 1] \o [k \in 1..Len(ms) |-> <<i, ms[k]>>]
    IN  f[NRows(a)]

\* The cells of one joined row: those of the row of a, then those of the row
\* of b without its key.
JoinRow(a, i, b, m, key) ==
    a.rows[i]
    \o LET js == FilterIdx(NCols(b), LAMBDA j : b.cols[j] # key)
       IN  [k \in 1..Len(js) |-> b.rows[m][js[k]]]

\* a.merge(b, on=key, how="inner"): one row for every pair of a row of a and
\* a row of b with equal key; the row index is 0..n-1.
Merge(a, b, key) ==
    LET ps == MatchPairs(a, b, key)
    IN  UpcastTable([cols |-> MergeCols(a, b, key),
                     idx  |-> RangeIndex(Len(ps)),
                     rows |-> [k \in 1..Len(ps) |-> JoinRow(a, ps[k][1], b, ps[k][2], key)]])

\* data = datasets[0]; for df in datasets[1:]: data = data.merge(df, ...)
\* if merge_on else data.  An exception of a merge ends the run.
MergeJoin(ts, key) ==
    LET f[k \in 1..Len(ts)] ==
            IF k = 1 THEN [outcome |-> "ok", table |-> ts[1]]
            ELSE IF key = "" \/ f[k - 1].outcome # "ok" THEN f[k - 1]
            ELSE IF MergeFails(f[k - 1].table, ts[k], key)
                 THEN [outcome |-> "exception", table |-> EmptyDF]
                 ELSE [outcome |-> "ok", table |-> Merge(f[k - 1].table, ts[k], key)]
    IN  f[Len(ts)]

(***************************************************************************)
(* The session: files, their first tables, the widget values.              *)
(***************************************************************************)
Files == {"a.csv"}

\* What pd.read_csv can return for an uploaded file: unique column labels, the
\* row index 0..n-1, one dtype per column.  TableA has a missing value,
\* TableB two equal rows.
TableA ==
    [cols |-> <<"id", "v">>,
     idx  |-> <<IntV(0), IntV(1)>>,
     rows |-> << <<IntV(1), FloatV(1)>>, <<IntV(2), NaN>> >>]

TableB ==
    [cols |-> <<"id", "v">>,
     idx  |-> <<IntV(0), IntV(1)>>,
     rows |-> << <<IntV(1), FloatV(2)>>, <<IntV(1), FloatV(2)>> >>]

InitialTables == {TableA, TableB}

\* The name a user types into "Enter new name for ...": v, which repeats a
\* column label while the table has a column v and is a fresh label once v
\* has been dropped.
NewNames == {"v"}

\* The default of "Enter value to fill missing cells": the text "0".
FillValue == StrIntV(0)

\* st.selectbox over no options returns None.
NoColumn == "None"

\* user_settings is a defaultdict: the settings of a file on first access.
DefaultSettings ==
    [dropped_columns    |-> <<>>,
     dropped_rows       |-> <<>>,
     dropped_rows_df    |-> EmptyDF,
     dropped_columns_df |-> EmptyDF]

NoCb == [dedupe |-> FALSE, dropna |-> FALSE, fillna |-> FALSE, rename |-> <<>>]

\* What the last run of main() was: the button that started it ("rerun" when
\* a checkbox or a text input did), the file, and how the run ended: "ok",
\* "warning" (st.warning), "error" (an exception caught and shown by
\* st.error) or "exception" (an uncaught exception, which ends the run).
NoLast == [op |-> "none", f |-> "", outcome |-> "ok"]

\* No combination was made: fewer than two files are loaded.
NoCombined == [how |-> "none", on |-> "", outcome |-> "ok", table |-> EmptyDF]

Init ==
    /\ datasets = <<>>
    /\ user_settings = <<>>
    /\ last = NoLast
    /\ runs = 0
    /\ combined = NoCombined

Loaded(f) == f \in DOMAIN datasets

(***************************************************************************)
(* One run of main() for one file.  data is the local variable of the      *)
(* loop body: it starts as the very object kept in                         *)
(* st.session_state.datasets (aliased), so an in-place pandas call changes *)
(* the stored table too; an assignment data = ... binds it to a new frame  *)
(* and later in-place calls of the run no longer reach the stored table.   *)
(***************************************************************************)
Context(t, s) ==
    [data |-> t, aliased |-> TRUE, table |-> t, st |-> s, outcome |-> "ok"]

\* data = st.session_state.datasets[file.name]; settings = ...user_settings[file.name]
Start(f) == Context(datasets[f], user_settings[f])

\* data = <new frame>
Rebind(c, t) == [c EXCEPT !.data = t, !.aliased = FALSE]

\* an in-place change of the frame data is bound to
InPlace(c, t) == [c EXCEPT !.data = t, !.table = IF c.aliased THEN t ELSE c.table]

Fail(c, how) == [c EXCEPT !.outcome = how]

\* "Remove Duplicates" checkbox
StepDedupe(c, on) == IF on THEN Rebind(c, DropDuplicates(c.data)) ELSE c

\* "Drop Rows with Missing Values" and "Fill Missing Values" checkboxes
StepMissing(c, dropna, fillna) ==
    LET c1 == IF dropna THEN Rebind(c, DropNa(c.data)) ELSE c
    IN  IF fillna THEN Rebind(c1, FillNa(c1.data, FillValue)) ELSE c1

\* "Rename Columns" checkbox with a new name typed in; rn is <<>> (off, or no
\* name typed) or <<column, new name>>.
StepRename(c, rn) ==
    IF rn = <<>> THEN c ELSE InPlace(c, RenameCols(c.data, rn[1], rn[2]))

RenameChoices(t) ==
    {<<>>} \cup {rn \in Range(t.cols) \X NewNames : rn[1] # rn[2]}

ColumnChoices(t) == IF NCols(t) = 0 THEN {NoColumn} ELSE Range(t.cols)

\* A conversion done cell by cell in place: the cells before the one that
\* cannot be cast are already converted when the error is shown.
ConvertPartial(c, col, dtype) ==
    IF AsTypeFails(c.data, col, dtype)
    THEN LET t == c.data
             bad(i) == \E j \in 1..NCols(t) :
                          t.cols[j] = col /\ ~CanCast(t.rows[i][j], dtype)
             part == [t EXCEPT !.rows = [i \in 1..NRows(t) |->
                        [j \in 1..NCols(t) |->
                            IF t.cols[j] = col /\ \A k \in 1..i : ~bad(k)
                            THEN Cast(t.rows[i][j], dtype) ELSE t.rows[i][j]]]]
         IN  Fail(InPlace(c, part), "error")
    ELSE InPlace(c, AsType(c.data, col, dtype))

\* "Convert Column" button
ConvertH(c, col, dtype) ==
    IF AsTypeFails(c.data, col, dtype) THEN Fail(c, "error")
    ELSE InPlace(c, AsType(c.data, col, dtype))

\* "Set Index" button; an exception here is not caught and ends the run.
SetIndexH(c, col) ==
    IF SetIndexFails(c.data, col) THEN Fail(c, "exception")
    ELSE InPlace(c, SetIndex(c.data, col))

\* "Sort Data" button; an exception here is not caught and ends the run.
SortOutcomes(c, col, asc) ==
    IF SortValuesFails(c.data, col) THEN {Fail(c, "exception")}
    ELSE {Rebind(c, t) : t \in SortValuesOutcomes(c.data, col, asc)}

\* The options of "Select Columns to Drop".
AvailableColumns(c) ==
    LET ps == FilterIdx(NCols(c.data),
                LAMBDA j : c.data.cols[j] \notin Range(c.st.dropped_columns))
    IN  UniqueNames([k \in 1..Len(ps) |-> c.data.cols[ps[k]]])

\* A drop that keeps the snapshot of an earlier drop instead of overwriting it.
DropColumnsKeepFirst(c, sel) ==
    LET snap == IF c.st.dropped_columns_df = EmptyDF THEN SelectCols(c.data, sel)
                ELSE c.st.dropped_columns_df
        c1   == [c EXCEPT !.st.dropped_columns_df = snap]
        c2   == InPlace(c1, DropCols(c1.data, sel))
    IN  [c2 EXCEPT !.st.dropped_columns = @ \o sel]

\* "Drop Selected Columns" button
DropColumnsH(c, sel) ==
    LET snap == SelectCols(c.data, sel)
        c1   == [c EXCEPT !.st.dropped_columns_df = snap]
        c2   == InPlace(c1, DropCols(c1.data, sel))
    IN  [c2 EXCEPT !.st.dropped_columns = @ \o sel]

\* A restore that skips the names the snapshot does not hold, as
\* index.isin does for rows.
RestoreColumnsLenient(c, sel) ==
    LET snap == c.st.dropped_columns_df
    IN  IF IsEmpty(snap) THEN Fail(c, "warning")
        ELSE LET restored == SelectCols(snap, sel)
             IN  IF ConcatColsFails(c.data, restored) THEN Fail(c, "error")
                 ELSE LET d == ConcatCols(c.data, restored)
                      IN  [data     |-> d,
                           aliased  |-> FALSE,
                           table    |-> d,
                           st       |-> [c.st EXCEPT !.dropped_columns = WithoutNames(@, sel)],
                           outcome  |-> "ok"]

\* "Restore Selected Columns" button
RestoreColumnsH(c, sel) ==
    LET snap == c.st.dropped_columns_df
    IN  IF IsEmpty(snap) THEN Fail(c, "warning")
        ELSE IF \E k \in 1..Len(sel) : sel[k] \notin Range(snap.cols) THEN Fail(c, "error")
        ELSE LET restored == SelectCols(snap, sel)
             IN  IF ConcatColsFails(c.data, restored) THEN Fail(c, "error")
                 ELSE LET d == ConcatCols(c.data, restored)
                      IN  [data     |-> d,
                           aliased  |-> FALSE,
                           table    |-> d,
                           st       |-> [c.st EXCEPT !.dropped_columns = WithoutNames(@, sel)],
                           outcome  |-> "ok"]

\* The options of "Select Rows to Drop": data.index.difference(dropped_rows).
AvailableRows(c) ==
    LET ps == FilterIdx(NRows(c.data),
                LAMBDA i : ~InKeys(c.data.idx[i], c.st.dropped_rows))
        u  == UniqueKeys([k \in 1..Len(ps) |-> c.data.idx[ps[k]]])
        o  == StableOrderBy(u, ValLess)
    IN  IF Comparable(u) THEN [k \in 1..Len(u) |-> u[o[k]]] ELSE u

\* "Drop Selected Rows" button
DropRowsH(c, sel) ==
    LET snap == SelectRows(c.data, sel)
        c1   == [c EXCEPT !.st.dropped_rows_df = snap]
        c2   == InPlace(c1, DropRowLabels(c1.data, sel))
    IN  [c2 EXCEPT !.st.dropped_rows = @ \o sel]

\* "Restore Selected Rows" button
RestoreRowsOutcomes(c, sel) ==
    LET snap == c.st.dropped_rows_df
    IN  IF IsEmpty(snap) THEN {Fail(c, "warning")}
        ELSE LET restored == RowsIsin(snap, sel)
             IN  IF ConcatRowsFails(c.data, restored) THEN {Fail(c, "error")}
                 ELSE LET t == ConcatRows(c.data, restored)
                      IN  IF SortIndexFails(t) THEN {Fail(c, "error")}
                          ELSE {[data     |-> d,
                                 aliased  |-> FALSE,
                                 table    |-> d,
                                 st       |-> [c.st EXCEPT !.dropped_rows = WithoutKeys(@, sel)],
                                 outcome  |-> "ok"] : d \in SortIndexOutcomes(t)}

(***************************************************************************)
(* The runs.  cb holds the checkbox state of the run: dedupe, dropna,      *)
(* fillna, and rename (<<>> or <<column, new name>>).  In the model at     *)
(* most one checkbox is active in a run, and a name is typed into the      *)
(* rename input only in a run no button started.                           *)
(***************************************************************************)
Cb(dd, dn, fn, rn) == [dedupe |-> dd, dropna |-> dn, fillna |-> fn, rename |-> rn]

CbSpace ==
    {NoCb, Cb(TRUE, FALSE, FALSE, <<>>), Cb(FALSE, TRUE, FALSE, <<>>),
     Cb(FALSE, FALSE, TRUE, <<>>)}
    \cup {Cb(FALSE, FALSE, FALSE, rn) : rn \in {"id", "v"} \X NewNames}

\* The checkbox states of a run a button started.
ButtonCbs == {cb \in CbSpace : cb.rename = <<>>}

\* data as it reaches the expander "Manage Rows/Columns": after the cleaning
\* checkboxes, with no button of the first expander pressed.
Steps(c, cb) ==
    StepRename(StepMissing(StepDedupe(c, cb.dedupe), cb.dropna, cb.fillna), cb.rename)

Pre(f, cb) == Steps(Start(f), cb)

\* The checkbox states of a run no button started.
Cbs(f) ==
    {cb \in CbSpace :
        cb.rename \in RenameChoices(
            StepMissing(StepDedupe(Start(f), cb.dedupe), cb.dropna, cb.fillna).data)}

InBounds(c) ==
    /\ NRows(c.table) <= MaxRows
    /\ NCols(c.table) <= MaxCols

\* The end of a run when every file is handed one and the same settings
\* dict (a default that is not created per file).
CommitShared(f, c, op) ==
    /\ InBounds(c)
    /\ datasets' = [datasets EXCEPT ![f] = c.table]
    /\ user_settings' = [g \in DOMAIN user_settings |-> c.st]
    /\ last' = [op |-> op, f |-> f, outcome |-> c.outcome]
    /\ runs' = runs + 1
    /\ UNCHANGED combined

\* The end of a run: what the session state holds after it.
Commit(f, c, op) ==
    /\ InBounds(c)
    /\ datasets' = [datasets EXCEPT ![f] = c.table]
    /\ user_settings' = [user_settings EXCEPT ![f] = c.st]
    /\ last' = [op |-> op, f |-> f, outcome |-> c.outcome]
    /\ runs' = runs + 1
    /\ UNCHANGED combined

\* A file is uploaded and parsed; its settings are created on first access.
Load(f) ==
    /\ runs < MaxRuns
    /\ ~Loaded(f)
    /\ \E t \in InitialTables :
          /\ datasets' = datasets @@ (f :> t)
          /\ user_settings' = user_settings @@ (f :> DefaultSettings)
          /\ last' = [op |-> "load", f |-> f, outcome |-> "ok"]
          /\ runs' = runs + 1
          /\ UNCHANGED combined

\* pd.read_csv / pd.read_excel raises: the error is shown, the file skipped.
LoadFails(f) ==
    /\ runs < MaxRuns
    /\ ~Loaded(f)
    /\ UNCHANGED <<datasets, user_settings, combined>>
    /\ last' = [op |-> "load", f |-> f, outcome |-> "error"]
    /\ runs' = runs + 1

\* A run no button started: a checkbox was toggled or a text typed.
Rerun(f) ==
    /\ runs < MaxRuns
    /\ Loaded(f)
    /\ \E cb \in Cbs(f) : Commit(f, Pre(f, cb), "rerun")

\* The rest of a run after a button of the first expander was handled.  An
\* uncaught exception has ended the run.
Rest(c, cb) ==
    IF c.outcome = "exception" THEN c
    ELSE [StepMissing(c, cb.dropna, cb.fillna) EXCEPT !.outcome = c.outcome]

ConvertRun(f, cb, col, dtype) ==
    Rest(ConvertH(StepDedupe(Start(f), cb.dedupe), col, dtype), cb)

ConvertColumn(f) ==
    /\ runs < MaxRuns
    /\ Loaded(f)
    /\ \E cb \in ButtonCbs :
          \E col \in ColumnChoices(StepDedupe(Start(f), cb.dedupe).data), dtype \in DTypes :
              Commit(f, ConvertRun(f, cb, col, dtype), "convert")

SortRuns(f, cb, col, asc) ==
    {Rest(c, cb) : c \in SortOutcomes(StepDedupe(Start(f), cb.dedupe), col, asc)}

SortData(f) ==
    /\ runs < MaxRuns
    /\ Loaded(f)
    /\ \E cb \in ButtonCbs :
          \E col \in ColumnChoices(StepDedupe(Start(f), cb.dedupe).data), asc \in BOOLEAN :
              \E c \in SortRuns(f, cb, col, asc) : Commit(f, c, "sort")

SetIndexRun(f, cb, col) ==
    Rest(SetIndexH(StepDedupe(Start(f), cb.dedupe), col), cb)

SetIndexCol(f) ==
    /\ runs < MaxRuns
    /\ Loaded(f)
    /\ \E cb \in ButtonCbs :
          \E col \in ColumnChoices(StepDedupe(Start(f), cb.dedupe).data) :
              Commit(f, SetIndexRun(f, cb, col), "set_index")

DropSelectedColumns(f) ==
    /\ runs < MaxRuns
    /\ Loaded(f)
    /\ \E cb \in ButtonCbs :
          LET c == Pre(f, cb)
          IN  \E sel \in SubSeqs(AvailableColumns(c)) :
                 Commit(f, DropColumnsH(c, sel), "drop_columns")

RestoreSelectedColumns(f) ==
    /\ runs < MaxRuns
    /\ Loaded(f)
    /\ \E cb \in ButtonCbs :
          LET c == Pre(f, cb)
          IN  \E sel \in SubSeqs(c.st.dropped_columns) :
                 Commit(f, RestoreColumnsH(c, sel), "restore_columns")

DropSelectedRows(f) ==
    /\ runs < MaxRuns
    /\ Loaded(f)
    /\ \E cb \in ButtonCbs :
          LET c == Pre(f, cb)
          IN  \E sel \in SubSeqs(AvailableRows(c)) :
                 Commit(f, DropRowsH(c, sel), "drop_rows")

RestoreSelectedRows(f) ==
    /\ runs < MaxRuns
    /\ Loaded(f)
    /\ \E cb \in ButtonCbs :
          LET c == Pre(f, cb)
          IN  \E sel \in SubSeqs(c.st.dropped_rows) :
                 \E r \in RestoreRowsOutcomes(c, sel) :
                    Commit(f, r, "restore_rows")

Next ==
    \E f \in Files :
        \/ Load(f)
        \/ LoadFails(f)
        \/ Rerun(f)
        \/ ConvertColumn(f)
        \/ SortData(f)
        \/ SetIndexCol(f)
        \/ DropSelectedColumns(f)
        \/ RestoreSelectedColumns(f)
        \/ DropSelectedRows(f)
        \/ RestoreSelectedRows(f)

Spec == Init /\ [][Next]_vars

(***************************************************************************)
(* The sessions in which only the four buttons of "Manage Rows/Columns"    *)
(* are pressed and no checkbox is ever ticked: data stays the stored       *)
(* frame in every run.                                                     *)
(***************************************************************************)
MaxEdits == 5

DropColumnsOnly(f) ==
    /\ runs < MaxEdits
    /\ Loaded(f)
    /\ \E sel \in SubSeqs(AvailableColumns(Start(f))) :
          Commit(f, DropColumnsH(Start(f), sel), "drop_columns")

RestoreColumnsOnly(f) ==
    /\ runs < MaxEdits
    /\ Loaded(f)
    /\ \E sel \in SubSeqs(user_settings[f].dropped_columns) :
          Commit(f, RestoreColumnsH(Start(f), sel), "restore_columns")

DropRowsOnly(f) ==
    /\ runs < MaxEdits
    /\ Loaded(f)
    /\ \E sel \in SubSeqs(AvailableRows(Start(f))) :
          Commit(f, DropRowsH(Start(f), sel), "drop_rows")

RestoreRowsOnly(f) ==
    /\ runs < MaxEdits
    /\ Loaded(f)
    /\ \E sel \in SubSeqs(user_settings[f].dropped_rows) :
          \E c \in RestoreRowsOutcomes(Start(f), sel) : Commit(f, c, "restore_rows")

NextEdits ==
    \E f \in Files :
        \/ Load(f)
        \/ DropColumnsOnly(f)
        \/ RestoreColumnsOnly(f)
        \/ DropRowsOnly(f)
        \/ RestoreRowsOnly(f)

SpecEdits == Init /\ [][NextEdits]_vars

(***************************************************************************)
(* The sessions with two uploaded files.  Each file has its own entry in   *)
(* st.session_state.datasets and, through the defaultdict's factory, its   *)
(* own settings dict; the widgets of the loop body are keyed by file name, *)
(* so a run a button of one file started handles no button of the other.   *)
(***************************************************************************)
Files2 == {"a.csv", "b.csv"}

MaxRuns2 == 3

Next2 ==
    \E f \in Files2 :
        \/ runs < MaxRuns2 /\ Load(f)
        \/ runs < MaxRuns2 /\ LoadFails(f)
        \/ runs < MaxRuns2 /\ Rerun(f)
        \/ runs < MaxRuns2 /\ ConvertColumn(f)
        \/ runs < MaxRuns2 /\ SortData(f)
        \/ runs < MaxRuns2 /\ SetIndexCol(f)
        \/ runs < MaxRuns2 /\ DropSelectedColumns(f)
        \/ runs < MaxRuns2 /\ RestoreSelectedColumns(f)
        \/ runs < MaxRuns2 /\ DropSelectedRows(f)
        \/ runs < MaxRuns2 /\ RestoreSelectedRows(f)

Spec2 == Init /\ [][Next2]_vars

(***************************************************************************)
(* The sessions that combine files: two or three files are uploaded and    *)
(* loaded by the first run, and every later run, with no checkbox ticked   *)
(* and no button pressed, combines the stored frames in upload order by    *)
(* the method of the radio button.                                         *)
(***************************************************************************)
Uploads == <<"a.csv", "b.csv", "c.csv">>

\* Frames pd.read_csv can return for the uploaded files: keys 1,2 / 2,3 /
\* 1,3 in a column id (no key in all three), a frame with key 2 only, one
\* with a repeated key, one without the column id, one with no rows, one
\* whose id column is text.
KeysA == TableA

KeysB ==
    [cols |-> <<"id", "w">>,
     idx  |-> <<IntV(0), IntV(1)>>,
     rows |-> << <<IntV(2), IntV(5)>>, <<IntV(3), IntV(6)>> >>]

KeysC ==
    [cols |-> <<"id">>,
     idx  |-> <<IntV(0), IntV(1)>>,
     rows |-> << <<IntV(1)>>, <<IntV(3)>> >>]

KeysD ==
    [cols |-> <<"id", "v">>,
     idx  |-> <<IntV(0)>>,
     rows |-> << <<IntV(2), FloatV(7)>> >>]

NoKey ==
    [cols |-> <<"w">>,
     idx  |-> <<IntV(0)>>,
     rows |-> << <<IntV(9)>> >>]

NoRows == [cols |-> <<"id", "v">>, idx |-> <<>>, rows |-> <<>>]

TextKeys ==
    [cols |-> <<"id", "v">>,
     idx  |-> <<IntV(0)>>,
     rows |-> << <<TextV, FloatV(1)>> >>]

CombineTables == {KeysA, KeysB, KeysC, KeysD, TableB, NoKey, NoRows, TextKeys}

\* What the user types into "Enter column name to merge on": nothing, the
\* shared key column, a column only some frames have.
MergeKeys == {"", "id", "v"}

\* The list datasets of main(): the frame of every loaded file, in upload
\* order.
Datasets ==
    LET fs == FilterIdx(Len(Uploads), LAMBDA k : Uploads[k] \in DOMAIN datasets)
    IN  [k \in 1..Len(fs) |-> datasets[Uploads[fs[k]]]]

InitCombine ==
    /\ \E n \in 2..Len(Uploads) :
          /\ datasets \in [{Uploads[k] : k \in 1..n} -> CombineTables]
          /\ user_settings = [f \in {Uploads[k] : k \in 1..n} |-> DefaultSettings]
    /\ last = NoLast
    /\ runs = 1
    /\ combined = NoCombined

\* merge_option == "Concatenate"
ConcatenateFiles ==
    /\ runs < MaxRuns
    /\ Len(Datasets) > 1
    /\ combined' = IF ConcatenateFails(Datasets)
                   THEN [how |-> "concat", on |-> "", outcome |-> "exception", table |-> EmptyDF]
                   ELSE [how |-> "concat", on |-> "", outcome |-> "ok",
                         table |-> Concatenate(Datasets)]
    /\ last' = [op |-> "rerun", f |-> "", outcome |-> combined'.outcome]
    /\ runs' = runs + 1
    /\ UNCHANGED <<datasets, user_settings>>

\* merge_option == "Merge/Join"
MergeFiles ==
    /\ runs < MaxRuns
    /\ Len(Datasets) > 1
    /\ \E key \in MergeKeys :
          LET m == MergeJoin(Datasets, key)
          IN  combined' = [how |-> "merge", on |-> key, outcome |-> m.outcome,
                           table |-> m.table]
    /\ last' = [op |-> "rerun", f |-> "", outcome |-> combined'.outcome]
    /\ runs' = runs + 1
    /\ UNCHANGED <<datasets, user_settings>>

NextCombine == ConcatenateFiles \/ MergeFiles

SpecCombine == InitCombine /\ [][NextCombine]_vars

(***************************************************************************)
(* The claims.  A claim about what a handler does to a table is stated     *)
(* over every reachable session state: the handler is applied to the       *)
(* stored table and settings of that state, in a run with the checkbox     *)
(* state cb.                                                               *)
(***************************************************************************)
SameTable(a, b) ==
    /\ a.cols = b.cols
    /\ SameKeys(a.idx, b.idx)
    /\ \A i \in 1..NRows(a) : \A j \in 1..NCols(a) : ValEq(a.rows[i][j], b.rows[i][j])

\* The stored table and the settings a run ends with, as the next run finds them.
After(c) == Context(c.table, c.st)

\* The columns of t not named in sel, then the columns named in sel.
MovedLast(t, sel) ==
    TakeCols(t, FilterIdx(NCols(t), LAMBDA j : t.cols[j] \notin Range(sel))
                \o FilterIdx(NCols(t), LAMBDA j : t.cols[j] \in Range(sel)))

\* C1: column round-trip.  For every stored table T with unique column
\* names and every non-empty selection A of its columns, "Drop Selected
\* Columns" with A followed at once by "Restore Selected Columns" with A
\* (no cleaning checkbox ticked) succeeds and stores a table with the row
\* index and the cells of T, the columns not in A in their order followed by
\* the columns of A, and leaves no name of A in dropped_columns.
C1_ColumnRoundTrip ==
    \A f \in DOMAIN datasets :
        LET T == datasets[f]
        IN  ~HasDupName(T.cols) =>
                \A A \in SubSeqs(AvailableColumns(Start(f))) :
                    A # <<>> =>
                        LET d == DropColumnsH(Start(f), A)
                            r == RestoreColumnsH(After(d), A)
                        IN  /\ d.outcome = "ok"
                            /\ r.outcome = "ok"
                            /\ SameTable(r.table, MovedLast(T, A))
                            /\ Range(A) \cap Range(r.st.dropped_columns) = {}

\* The rows of t as a set of <<key, cells by column name>>.
RowSet(t) ==
    {<<t.idx[i], {<<t.cols[j], t.rows[i][j]>> : j \in 1..NCols(t)}>> : i \in 1..NRows(t)}

Ascending(keys) ==
    \A i \in 1..Len(keys) : \A j \in 1..Len(keys) : i < j => ~ValLess(keys[j], keys[i])

\* C2: row round-trip.  For every stored table T with unique row keys and
\* every non-empty selection K of its keys, "Drop Selected Rows" with K
\* followed by "Restore Selected Rows" with K (no cleaning checkbox ticked)
\* succeeds and stores a table whose set of rows is that of T, ordered by row
\* key ascending, and leaves no key of K in dropped_rows.
C2_RowRoundTrip ==
    \A f \in DOMAIN datasets :
        LET T == datasets[f]
        IN  ~HasDup(T.idx) =>
                \A K \in SubSeqs(AvailableRows(Start(f))) :
                    K # <<>> =>
                        LET d == DropRowsH(Start(f), K)
                        IN  /\ d.outcome = "ok"
                            /\ \A r \in RestoreRowsOutcomes(After(d), K) :
                                  /\ r.outcome = "ok"
                                  /\ RowSet(r.table) = RowSet(T)
                                  /\ Ascending(r.table.idx)
                                  /\ \A k \in Range(K) : ~InKeys(k, r.st.dropped_rows)

Failed(c) == c.outcome \in {"warning", "error"}

\* C3: documented loss on the second drop.  From every reachable state,
\* "Drop Selected Columns" with a non-empty A, then with a non-empty B (B is
\* disjoint from A: the names of A are no longer offered), then "Restore
\* Selected Columns" with A: the restore fails, and the stored table and the
\* settings are what the second drop left: dropped_columns ends with A
\* followed by B and the snapshot holds exactly the columns of B.  (No
\* cleaning checkbox is ticked in the three runs.)
C3_LossOnSecondDrop ==
    \A f \in DOMAIN datasets :
        LET c1 == Start(f)
        IN  \A A \in SubSeqs(AvailableColumns(c1)) :
                A # <<>> =>
                    LET d1 == DropColumnsH(c1, A)
                        c2 == After(d1)
                    IN  \A B \in SubSeqs(AvailableColumns(c2)) :
                            B # <<>> =>
                                LET d2 == DropColumnsH(c2, B)
                                    r  == RestoreColumnsH(After(d2), A)
                                IN  /\ Range(A) \cap Range(B) = {}
                                    /\ Failed(r)
                                    /\ r.table = d2.table
                                    /\ r.st = d2.st
                                    /\ r.st.dropped_columns
                                         = user_settings[f].dropped_columns \o A \o B
                                    /\ Range(r.st.dropped_columns_df.cols) = Range(B)

\* C3 witness: the restore of a column dropped before the last drop has just
\* been refused: id was dropped, then v, and the snapshot holds v only.
C3_Witness ==
    \E f \in DOMAIN datasets :
        /\ last = [op |-> "restore_columns", f |-> f, outcome |-> "error"]
        /\ user_settings[f].dropped_columns = <<"id", "v">>
        /\ user_settings[f].dropped_columns_df.cols = <<"v">>
        /\ NCols(datasets[f]) = 0

\* C4 as stated: in every reachable state every name listed in
\* dropped_columns is a column of the column snapshot and every key listed
\* in dropped_rows is a row of the row snapshot.
C4_Retrievable ==
    \A f \in DOMAIN datasets :
        LET s == user_settings[f]
        IN  /\ Range(s.dropped_columns) \subseteq Range(s.dropped_columns_df.cols)
            /\ \A k \in Range(s.dropped_rows) : InKeys(k, s.dropped_rows_df.idx)

\* The entries of new after the first Len(old) ones.
Appended(old, new) == {new[k] : k \in (Len(old) + 1)..Len(new)}

\* C4 amended: a drop overwrites the snapshot, so only the names of the drop
\* that was last are retrievable.  Every run of "Drop Selected Columns"
\* leaves each name it appended to dropped_columns as a column of the column
\* snapshot, and the snapshot holds no other column; every run of "Drop
\* Selected Rows" leaves each key it appended to dropped_rows as a row of the
\* row snapshot, and the snapshot holds no other row.
C4_DropSnapshotsItsNames ==
    [][\A f \in DOMAIN datasets :
          (f \in DOMAIN datasets' /\ last'.f = f) =>
              LET old == user_settings[f]
                  new == user_settings'[f]
              IN  /\ last'.op = "drop_columns" =>
                        Range(new.dropped_columns_df.cols)
                            = Appended(old.dropped_columns, new.dropped_columns)
                  /\ last'.op = "drop_rows" =>
                        /\ \A k \in Appended(old.dropped_rows, new.dropped_rows) :
                              InKeys(k, new.dropped_rows_df.idx)
                        /\ \A k \in Range(new.dropped_rows_df.idx) :
                              InKeys(k, new.dropped_rows)]_vars

\* C4 witness: a second drop has just overwritten the snapshot: v, dropped by
\* it, is in the snapshot and id, dropped before, is not.
C4_Witness ==
    \E f \in DOMAIN datasets :
        /\ last = [op |-> "drop_columns", f |-> f, outcome |-> "ok"]
        /\ user_settings[f].dropped_columns = <<"id", "v">>
        /\ user_settings[f].dropped_columns_df.cols = <<"v">>


ProperParts(s) == {p \in SubSeqs(s) : p # <<>> /\ p # s}

\* The rows of t whose key is not in keys.
RowsWithout(t, keys) == {r \in RowSet(t) : ~InKeys(r[1], keys)}

\* C5: partial restore.  From every reachable state in which nothing is
\* listed as dropped, for a stored table T with unique column names, one
\* "Drop Selected Columns" with A and then "Restore Selected Columns" with a
\* proper non-empty part S of A (no checkbox ticked): the restore succeeds,
\* the table is T without the columns of A minus S (S last), dropped_columns
\* is A without S in drop order, and a later restore of A minus S succeeds
\* and gives all cells of T back.  The same for rows with unique row keys.
C5_PartialRestore ==
    \A f \in DOMAIN datasets :
        LET T == datasets[f]
            s == user_settings[f]
        IN  /\ (~HasDupName(T.cols) /\ s.dropped_columns = <<>>) =>
                  \A A \in SubSeqs(AvailableColumns(Start(f))) : \A S \in ProperParts(A) :
                      LET d    == DropColumnsH(Start(f), A)
                          r    == RestoreColumnsH(After(d), S)
                          rest == WithoutNames(A, S)
                          r2   == RestoreColumnsH(After(r), rest)
                      IN  /\ r.outcome = "ok"
                          /\ SameTable(r.table, MovedLast(DropCols(T, rest), S))
                          /\ r.st.dropped_columns = rest
                          /\ r2.outcome = "ok"
                          /\ SameTable(r2.table, MovedLast(MovedLast(T, S), rest))
            /\ (~HasDup(T.idx) /\ s.dropped_rows = <<>>) =>
                  \A K \in SubSeqs(AvailableRows(Start(f))) : \A S \in ProperParts(K) :
                      LET d    == DropRowsH(Start(f), K)
                          rest == WithoutKeys(K, S)
                      IN  \A r \in RestoreRowsOutcomes(After(d), S) :
                              /\ r.outcome = "ok"
                              /\ RowSet(r.table) = RowsWithout(T, rest)
                              /\ r.st.dropped_rows = rest
                              /\ \A r2 \in RestoreRowsOutcomes(After(r), rest) :
                                    /\ r2.outcome = "ok"
                                    /\ RowSet(r2.table) = RowSet(T)

TouchesHistory == {"convert", "drop_columns", "restore_columns", "drop_rows", "restore_rows"}

C7_NothingToRestore ==
    \A f \in DOMAIN datasets : \A cb \in ButtonCbs :
        LET c == Pre(f, cb)
        IN  \A sel \in SubSeqs(c.st.dropped_columns) :
                (sel = <<>> \/ NCols(c.st.dropped_columns_df) = 0) =>
                    LET r == RestoreColumnsH(c, sel)
                    IN  /\ r.outcome = "warning"
                        /\ r.table = datasets[f]
                        /\ r.st = user_settings[f]

\* C8: "Restore Selected Rows" with keys that are listed in dropped_rows but
\* are not rows of the row snapshot fails and leaves dropped_rows and the
\* stored table unchanged; and a restore removes a key from dropped_rows
\* only if it puts the row of the snapshot with that key into the table.
C8_RestoreRowsSymmetric ==
    \A f \in DOMAIN datasets :
        LET c    == Start(f)
            snap == c.st.dropped_rows_df
        IN  \A sel \in SubSeqs(c.st.dropped_rows) :
                sel # <<>> =>
                    \A r \in RestoreRowsOutcomes(c, sel) :
                        /\ (\A k \in Range(sel) : ~InKeys(k, snap.idx)) =>
                              /\ Failed(r)
                              /\ r.table = datasets[f]
                              /\ r.st.dropped_rows = c.st.dropped_rows
                        /\ \A k \in Range(c.st.dropped_rows) :
                              ~InKeys(k, r.st.dropped_rows) =>
                                  /\ InKeys(k, snap.idx)
                                  /\ InKeys(k, r.table.idx)

\* C9: every run of "Drop Selected Columns" ("Drop Selected Rows") that
\* succeeds leaves a stored table without the columns (rows) whose names
\* (keys) it appended to dropped_columns (dropped_rows), whichever cleaning
\* checkbox is ticked in that run.
C9_DropReachesStore ==
    [][\A f \in DOMAIN datasets :
          (last'.f = f /\ last'.outcome = "ok") =>
              LET old == user_settings[f]
                  new == user_settings'[f]
              IN  /\ last'.op = "drop_columns" =>
                        Appended(old.dropped_columns, new.dropped_columns)
                            \cap Range(datasets'[f].cols) = {}
                  /\ last'.op = "drop_rows" =>
                        \A k \in Appended(old.dropped_rows, new.dropped_rows) :
                            ~InKeys(k, datasets'[f].idx)]_vars

\* C10: every transform replaces the stored table.  From every reachable
\* state, after a run in which a cleaning checkbox is ticked or a name typed
\* (deduplicate, drop missing, fill missing, rename), or in which "Convert
\* Column", "Set Index" or "Sort Data" is pressed and succeeds, the stored
\* table is the table the transform produced.
C10_TransformStored ==
    \A f \in DOMAIN datasets :
        /\ \A cb \in Cbs(f) : LET c == Pre(f, cb) IN c.table = c.data
        /\ \A col \in ColumnChoices(datasets[f]) :
              /\ \A dtype \in DTypes :
                    LET c == ConvertH(Start(f), col, dtype)
                    IN  c.outcome = "ok" => c.table = c.data
              /\ LET c == SetIndexH(Start(f), col)
                 IN  c.outcome = "ok" => c.table = c.data
              /\ \A asc \in BOOLEAN : \A c \in SortOutcomes(Start(f), col, asc) :
                    c.outcome = "ok" => c.table = c.data

\* C11: restore_columns aligns by row key and only adds columns.  From every
\* reachable state whose stored table and column snapshot have unique row
\* keys and unique column names, for every non-empty selection of the listed
\* names whose "Restore Selected Columns" succeeds (no checkbox ticked): the stored
\* table has the row index it had before (a row dropped after the snapshot
\* was taken stays absent), its columns are the former ones followed by the
\* selection, the former cells are kept, and each restored cell is the
\* snapshot's value for the row key, missing where the snapshot has no such
\* row.
C11_RestoreAligns ==
    \A f \in DOMAIN datasets :
        LET T    == datasets[f]
            snap == user_settings[f].dropped_columns_df
        IN  \A sel \in SubSeqs(user_settings[f].dropped_columns) :
                LET r == RestoreColumnsH(Start(f), sel)
                IN  (/\ sel # <<>> /\ r.outcome = "ok"
                     /\ ~HasDup(T.idx) /\ ~HasDup(snap.idx)
                     /\ ~HasDupName(T.cols) /\ ~HasDupName(snap.cols)) =>
                        /\ SameKeys(r.table.idx, T.idx)
                        /\ r.table.cols = T.cols \o sel
                        /\ \A i \in 1..NRows(T) :
                              /\ \A j \in 1..NCols(T) :
                                    ValEq(r.table.rows[i][j], T.rows[i][j])
                              /\ \A k \in 1..Len(sel) :
                                    ValEq(r.table.rows[i][NCols(T) + k],
                                          CellAt(SelectCols(snap, sel), T.idx[i], k))

\* C12: column names stay unique.  In every reachable state the stored
\* table of every dataset has no column name twice (every loaded table
\* starts with unique names).
C12_UniqueColumnNames ==
    \A f \in DOMAIN datasets : ~HasDupName(datasets[f].cols)

\* C13: row keys stay unique.  In every state reached by drop_columns,
\* restore_columns, drop_rows and restore_rows alone (no checkbox ticked),
\* from a loaded table with unique row keys, the stored table's row index
\* holds no key twice.
C13_UniqueRowKeys ==
    \A f \in DOMAIN datasets : ~HasDup(datasets[f].idx)

\* C14: dataset isolation.  A run for file X, whatever its button and
\* however it ends, leaves the stored table and the settings
\* (dropped_columns, dropped_rows and both snapshots) of every other loaded
\* file as they were.
C14_Isolation ==
    [][\A y \in DOMAIN datasets :
          y # last'.f => /\ datasets'[y] = datasets[y]
                         /\ user_settings'[y] = user_settings[y]]_vars

\* C14 witness: with both files loaded, a drop on a.csv has just succeeded,
\* or a restore on b.csv has just been refused, and the settings of the
\* other file are still those of its load.
C14_Witness ==
    /\ DOMAIN datasets = Files2
    /\ \/ last = [op |-> "drop_columns", f |-> "a.csv", outcome |-> "ok"]
          /\ user_settings["a.csv"].dropped_columns # <<>>
       \/ last = [op |-> "restore_rows", f |-> "b.csv", outcome |-> "warning"]
    /\ \A y \in Files2 \ {last.f} : user_settings[y] = DefaultSettings

\* The number of rows of the frames of ts before frame k.
Offset(ts, k) ==
    LET f[m \in 1..k] == IF m = 1 THEN 0 ELSE f[m - 1] + NRows(ts[m - 1])
    IN  f[k]

\* C15: Concatenate.  After a run that concatenated the loaded frames (two
\* or more, each with unique column names as loaded): no error was raised,
\* the combined table has the rows of all frames in upload order, its
\* columns are the union of the frames' column names, each once, a cell
\* holds the value of its source row, or is missing where the source frame
\* lacks the column, and the row index is 0..n-1.
C15_Concatenate ==
    combined.how = "concat" =>
        LET ts == Datasets
            T  == combined.table
        IN  /\ combined.outcome = "ok"
            /\ ~HasDupName(T.cols)
            /\ Range(T.cols) = UNION {Range(ts[k].cols) : k \in 1..Len(ts)}
            /\ NRows(T) = Offset(ts, Len(ts)) + NRows(ts[Len(ts)])
            /\ T.idx = RangeIndex(NRows(T))
            /\ \A k \in 1..Len(ts) : \A i \in 1..NRows(ts[k]) : \A j \in 1..NCols(T) :
                  LET cell == T.rows[Offset(ts, k) + i][j]
                  IN  IF HasCol(ts[k], T.cols[j])
                      THEN ValEq(cell, ts[k].rows[i][ColOf(ts[k], T.cols[j])])
                      ELSE cell = NaN

\* C15 witness: three frames with different columns were concatenated: the
\* rows of the frame without the column id have a missing id.
C15_Witness ==
    /\ combined.how = "concat"
    /\ combined.outcome = "ok"
    /\ Len(Datasets) = 3
    /\ Datasets[1] = KeysA /\ Datasets[2] = NoKey /\ Datasets[3] = KeysB
    /\ combined.table.cols = <<"id", "v", "w">>
    /\ combined.table.rows[3] = <<NaN, NaN, FloatV(9)>>
    /\ NRows(combined.table) = 5

\* The values of the column key of t.
KeyValues(t, key) == Column(t, ColOf(t, key))

\* C16: Merge/Join is an inner join chained left to right on one key
\* column.  After a run that merged the loaded frames on a column every
\* frame has: no error was raised, every row of the result has a key value
\* present in every frame, every key value present in every frame has a
\* row, and with no key value common to all frames the result has no rows.
C16_InnerJoin ==
    LET ts  == Datasets
        key == combined.on
        T   == combined.table
    IN  (/\ combined.how = "merge" /\ key # ""
         /\ \A k \in 1..Len(ts) : HasCol(ts[k], key)) =>
            /\ combined.outcome = "ok"
            /\ \A i \in 1..NRows(T) : \A k \in 1..Len(ts) :
                  InKeys(T.rows[i][ColOf(T, key)], KeyValues(ts[k], key))
            /\ \A v \in Range(KeyValues(ts[1], key)) :
                  (\A k \in 1..Len(ts) : InKeys(v, KeyValues(ts[k], key)))
                      => InKeys(v, KeyValues(T, key))
            /\ (~\E v \in Range(KeyValues(ts[1], key)) :
                    \A k \in 1..Len(ts) : InKeys(v, KeyValues(ts[k], key)))
                  => NRows(T) = 0

\* C17: deduplicate keeps first occurrences and is idempotent.  For every
\* stored table T with at least one column, the frame D that "Remove
\* Duplicates" binds to data is T restricted to a set S of its rows, in
\* their order and with their labels, where a row is in S exactly when no
\* earlier row of T equals it in every column; no two rows of D are equal,
\* and deduplicating D again gives D.
C17_DedupeIdempotent ==
    \A f \in DOMAIN datasets :
        LET T == datasets[f]
            c == StepDedupe(Start(f), TRUE)
            D == c.data
        IN  NCols(T) > 0 =>
                /\ \E S \in SUBSET (1..NRows(T)) :
                      /\ D = TakeRows(T, FilterIdx(NRows(T), LAMBDA i : i \in S))
                      /\ \A i \in S : \A k \in 1..(i - 1) : ~RowEq(T.rows[k], T.rows[i])
                      /\ \A i \in (1..NRows(T)) \ S :
                            \E k \in S : k < i /\ RowEq(T.rows[k], T.rows[i])
                /\ \A i \in 1..NRows(D) : \A k \in 1..NRows(D) :
                      i # k => ~RowEq(D.rows[i], D.rows[k])
                /\ StepDedupe(Context(D, c.st), TRUE).data = D
                /\ DropDuplicates(DropDuplicates(T)) = DropDuplicates(T)

\* C17 witness: the stored table has three rows of which the first and the
\* last are equal and the middle one differs: "Remove Duplicates" binds data
\* to its first two rows.
C17_Witness ==
    \E f \in DOMAIN datasets :
        LET T == datasets[f]
        IN  /\ NCols(T) > 0
            /\ NRows(T) = 3
            /\ RowEq(T.rows[1], T.rows[3])
            /\ ~RowEq(T.rows[1], T.rows[2])
            /\ NRows(StepDedupe(Start(f), TRUE).data) = 2

\* The position of the row labelled key in t (labels unique).
PosOf(t, key) == CHOOSE i \in 1..NRows(t) : ValEq(t.idx[i], key)

C19_DroppedMeansAbsent ==
    \A f \in DOMAIN datasets :
        /\ \A n \in Range(user_settings[f].dropped_columns) :
              n \notin Range(datasets[f].cols)
        /\ \A k \in Range(user_settings[f].dropped_rows) :
              ~InKeys(k, datasets[f].idx)

\* C20: a drop with nothing selected is a no-op on the edit history.  From
\* every reachable state whose column snapshot holds columns, "Drop
\* Selected Columns" with no name selected leaves the stored table and the
\* settings as they were, and every restore of listed names then ends as
\* it would have without it; the same for "Drop Selected Rows" with no key
\* selected and a row snapshot that holds rows.
C20_EmptyDropNoOp ==
    \A f \in DOMAIN datasets :
        LET c  == Start(f)
            dc == DropColumnsH(c, <<>>)
            dr == DropRowsH(c, <<>>)
        IN  /\ c.st.dropped_columns_df.cols # <<>> =>
                /\ dc.st = c.st
                /\ dc.table = c.table
                /\ \A sel \in SubSeqs(c.st.dropped_columns) :
                      RestoreColumnsH(After(dc), sel).outcome
                          = RestoreColumnsH(c, sel).outcome
            /\ NRows(c.st.dropped_rows_df) > 0 =>
                /\ dr.st = c.st
                /\ dr.table = c.table
                /\ \A sel \in SubSeqs(c.st.dropped_rows) :
                      {r.outcome : r \in RestoreRowsOutcomes(After(dr), sel)}
                          = {r.outcome : r \in RestoreRowsOutcomes(c, sel)}

====
